---- MODULE Spec2Model ----
(***************************************************************************)
(* Model of the supauth request/response pipeline (client.go) and of the   *)
(* six auth operations built on it (auth.go).                              *)
(*                                                                         *)
(* A call is one action: it takes its arguments and the outcome of the     *)
(* transport's Do from small sets, runs the handler to its return and      *)
(* records arguments, result and what happened on the way (requests the    *)
(* transport received, decodes of the response body, whether the body was  *)
(* closed) in `last`.  Return hands the result to the caller and makes     *)
(* the client idle again.                                                  *)
(*                                                                         *)
(* A second specification, ConcSpec, runs NumCallers callers on the one   *)
(* client at the same time, each call split at the statements where it     *)
(* touches the request, the client or the transport; `calls` holds each    *)
(* caller's position and locals.                                           *)
(***************************************************************************)
EXTENDS Integers, Sequences, FiniteSets, TLC

VARIABLES c, last, calls

vars == <<c, last, calls>>

(***************************************************************************)
(* Bounds of the model.                                                    *)
(***************************************************************************)
\* longest list of values a header of an incoming request already carries
MaxHdrVals == 2

\* callers using the client at the same time
NumCallers == 2

(***************************************************************************)
(* Errors.  A Go error is modelled by its message; NilErr is the nil error. *)
(***************************************************************************)
NilErr == "<nil>"

ErrEmptyUrl == "supabase api url is empty"

ErrEOF == "EOF"

(***************************************************************************)
(* JSON.  A scalar is null, a number or a string; a value is a scalar or   *)
(* an object (a function from keys to scalars).  A response body is empty, *)
(* syntactically invalid (with the scanner's diagnostic) or one value.     *)
(***************************************************************************)
JNull == [t |-> "null", n |-> 0, s |-> ""]

JNum(n) == [t |-> "number", n |-> n, s |-> ""]

JStr(s) == [t |-> "string", n |-> 0, s |-> s]

JObj(o) == [t |-> "object", o |-> o]

EmptyBody == [k |-> "empty"]

BadBody(diag) == [k |-> "syntax", diag |-> diag]

JsonBody(v) == [k |-> "json", v |-> v]

\* the zero time.Time, and the timestamps time.Time's UnmarshalJSON accepts
ZeroTime == "0001-01-01T00:00:00Z"

ValidTimes == {"2024-01-02T03:04:05Z"}

(***************************************************************************)
(* The decoded shapes: json tag and Go type of each field.                 *)
(***************************************************************************)
ErrorResponseFields_msgKey ==
    << [f |-> "Status", key |-> "code", ty |-> "int"],
       [f |-> "ErrorCode", key |-> "error_code", ty |-> "string"],
       [f |-> "Message", key |-> "message", ty |-> "string"] >>

ErrorResponseFields ==
    << [f |-> "Status", key |-> "code", ty |-> "int"],
       [f |-> "ErrorCode", key |-> "error_code", ty |-> "string"],
       [f |-> "Message", key |-> "msg", ty |-> "string"] >>

SignUpFields ==
    << [f |-> "ID", key |-> "id", ty |-> "string"],
       [f |-> "Email", key |-> "email", ty |-> "string"],
       [f |-> "CreatedAt", key |-> "created_at", ty |-> "time"] >>

AuthenticatedFields ==
    << [f |-> "AccessToken", key |-> "access_token", ty |-> "string"],
       [f |-> "TokenType", key |-> "token_type", ty |-> "string"],
       [f |-> "ExpiresIn", key |-> "expires_in", ty |-> "int"],
       [f |-> "RefreshToken", key |-> "refresh_token", ty |-> "string"] >>

FieldsOf(ty) ==
    CASE ty = "ErrorResponse" -> ErrorResponseFields
      [] ty = "SignUp" -> SignUpFields
      [] ty = "Authenticated" -> AuthenticatedFields

(***************************************************************************)
(* encoding/json, as far as the pipeline uses it.                          *)
(***************************************************************************)
Zero(ty) == IF ty = "int" THEN 0 ELSE IF ty = "time" THEN ZeroTime ELSE ""

\* a key the object lacks, or a null, leaves the field alone; otherwise the
\* JSON type has to fit the field's Go type
FieldOK(o, fd) ==
    \/ fd.key \notin DOMAIN o
    \/ o[fd.key].t = "null"
    \/ fd.ty = "int" /\ o[fd.key].t = "number"
    \/ fd.ty = "string" /\ o[fd.key].t = "string"
    \/ fd.ty = "time" /\ o[fd.key].t = "string" /\ o[fd.key].s \in ValidTimes

FieldVal(o, fd) ==
    IF fd.key \in DOMAIN o /\ o[fd.key].t # "null" /\ FieldOK(o, fd)
    THEN (IF fd.ty = "int" THEN o[fd.key].n ELSE o[fd.key].s)
    ELSE Zero(fd.ty)

FieldErr(ty, fd, o) ==
    IF fd.ty = "time" /\ o[fd.key].t = "string"
    THEN "parsing time " \o o[fd.key].s
    ELSE "json: cannot unmarshal " \o o[fd.key].t \o " into Go struct field "
             \o ty \o "." \o fd.key \o " of type " \o fd.ty

\* the struct of type ty with the fields an object fills in
StructVal(ty, o) ==
    LET fds == FieldsOf(ty)
        names == {fds[i].f : i \in DOMAIN fds}
        fdOf(nm) == CHOOSE i \in DOMAIN fds : fds[i].f = nm
    IN [nm \in names \cup {"kind"} |->
          IF nm = "kind" THEN ty ELSE FieldVal(o, fds[fdOf(nm)])]

NoObject == [k \in {} |-> JNull]

ZeroStruct(ty) == StructVal(ty, NoObject)

NilData == [kind |-> "nil"]

\* Decoder.Decode into a pointer to a struct of type ty: the first value of
\* the body is scanned whole before anything is stored
DecodeStruct(ty, body) ==
    LET fds == FieldsOf(ty) IN
    CASE body.k = "empty" -> [err |-> ErrEOF, val |-> ZeroStruct(ty)]
      [] body.k = "syntax" -> [err |-> body.diag, val |-> ZeroStruct(ty)]
      [] body.k = "json" /\ body.v.t = "null" ->
            [err |-> NilErr, val |-> ZeroStruct(ty)]
      [] body.k = "json" /\ body.v.t = "object" ->
            LET o == body.v.o
                bad == {i \in DOMAIN fds : ~FieldOK(o, fds[i])}
                first == CHOOSE i \in bad : \A j \in bad : i <= j
            IN [err |-> IF bad = {} THEN NilErr ELSE FieldErr(ty, fds[first], o),
                val |-> StructVal(ty, o)]
      [] OTHER ->
            [err |-> "json: cannot unmarshal " \o body.v.t
                        \o " into Go value of type supauth." \o ty,
             val |-> ZeroStruct(ty)]

\* what a JSON value becomes when it is stored into an empty interface
Generic(v) ==
    IF v.t = "object" THEN [kind |-> "map", m |-> v.o]
    ELSE [kind |-> "scalar", v |-> v]

(***************************************************************************)
(* The success shapes a caller passes as successValue: nil, a pointer to   *)
(* a struct, a pointer to a map[string]any, or a map held by value.        *)
(***************************************************************************)
NilSV == [kind |-> "nil", ty |-> ""]

PtrSignUp == [kind |-> "ptrStruct", ty |-> "SignUp"]

PtrAuthenticated == [kind |-> "ptrStruct", ty |-> "Authenticated"]

PtrMap == [kind |-> "ptrMap", ty |-> ""]

MapValue == [kind |-> "value", ty |-> ""]

SuccessValues == {NilSV, PtrSignUp, PtrAuthenticated, PtrMap, MapValue}

\* json.NewDecoder(res.Body).Decode(&successValue): the target is the
\* interface variable; the decoder follows it to the pointer it holds unless
\* the value is null, and a null sets the interface itself to nil
DecodeSuccess(sv, body) ==
    CASE body.k = "empty" -> [err |-> ErrEOF, data |-> NilData]
      [] body.k = "syntax" -> [err |-> body.diag, data |-> NilData]
      [] body.k = "json" /\ body.v.t = "null" -> [err |-> NilErr, data |-> NilData]
      [] body.k = "json" /\ body.v.t # "null" /\ sv.kind = "ptrStruct" ->
            LET d == DecodeStruct(sv.ty, body) IN [err |-> d.err, data |-> d.val]
      [] body.k = "json" /\ body.v.t # "null" /\ sv.kind = "ptrMap" ->
            IF body.v.t = "object"
            THEN [err |-> NilErr, data |-> Generic(body.v)]
            ELSE [err |-> "json: cannot unmarshal " \o body.v.t
                            \o " into Go value of type map[string]interface {}",
                  data |-> NilData]
      [] OTHER -> [err |-> NilErr, data |-> Generic(body.v)]

(***************************************************************************)
(* Requests and net/http, as far as the pipeline uses it.                  *)
(***************************************************************************)
HeaderNames == {"Content-Type", "Accept", "Apikey", "Authorization"}

\* textproto.CanonicalMIMEHeaderKey on the keys the code uses
Canonical(k) ==
    CASE k = "apikey" -> "Apikey"
      [] OTHER -> k

NoHeader == [h \in HeaderNames |-> <<>>]

\* http.Header.Set: replaces the values of the key by the single value
HeaderSet(h, k, v) == [h EXCEPT ![Canonical(k)] = <<v>>]

\* http.Header.Get: the first value of the key, "" when there is none
HeaderGet(h, k) == IF h[Canonical(k)] = <<>> THEN "" ELSE h[Canonical(k)][1]

NilReq == [isNil |-> TRUE]

NilEnv == [isNil |-> TRUE]

\* payloads a caller hands to createRequest
NilPayload == [kind |-> "nil"]

CredsPayload(e, p) == [kind |-> "creds", Email |-> e, Password |-> p]

MapPayload(k, v) == [kind |-> "map", key |-> k, val |-> v]

ChanPayload == [kind |-> "chan"]

\* json.Marshal: UserCredentials has no json tags, so its keys are the field
\* names; a channel cannot be encoded
Marshal(data) ==
    CASE data.kind = "nil" -> [err |-> NilErr, body |-> JNull]
      [] data.kind = "creds" ->
            [err |-> NilErr,
             body |-> JObj([k \in {"Email", "Password"} |->
                              IF k = "Email" THEN JStr(data.Email)
                              ELSE JStr(data.Password)])]
      [] data.kind = "map" ->
            [err |-> NilErr, body |-> JObj([k \in {data.key} |-> JStr(data.val)])]
      [] OTHER -> [err |-> "json: unsupported type: chan int", body |-> JNull]

\* the base URLs of the model: none, the one newClient derives for project
\* "test", and one url.Parse rejects
GoodBase == "https://test.supabase.co/auth/v1"

BadBase == "https://test.supabase.co{auth/v1"

BaseUrls == {"", GoodBase, BadBase}

Endpoints == {"", "signup"}

OpEndpoints ==
    {"signup", "token?grant_type=password", "logout",
     "token?grant_type=refresh_token", "recover", "user?type=recovery"}

\* url.Parse fails on a "{" in the host name
UrlParses(u) ==
    /\ u # BadBase
    /\ \A e \in Endpoints \cup OpEndpoints : u # BadBase \o "/" \o e

\* net/http validMethod: a non-empty token
ValidMethod(m) == m \in {"GET", "POST", "PUT"}

\* http.NewRequestWithContext: "" means GET; the method is checked before
\* the URL is parsed
NewRequestWithContext(method, url, body) ==
    LET m == IF method = "" THEN "GET" ELSE method IN
    IF ~ValidMethod(m)
    THEN [req |-> NilReq, err |-> "net/http: invalid method " \o m]
    ELSE IF ~UrlParses(url)
    THEN [req |-> NilReq,
          err |-> "parse " \o url \o ": invalid character { in host name"]
    ELSE [req |-> [isNil |-> FALSE, Method |-> m, URL |-> url,
                   Header |-> NoHeader, Body |-> body],
          err |-> NilErr]

(***************************************************************************)
(* client.go                                                               *)
(***************************************************************************)
\* what a call did: the request it built or sent on, the envelope and the
\* error it returns, the requests the transport's Do received, the number
\* of Decode calls on the response body, whether a response came back and
\* whether its body was closed
Outcome(req, env, err, sent, decodes, opened, closed) ==
    [req |-> req, env |-> env, err |-> err, sent |-> sent,
     decodes |-> decodes, opened |-> opened, closed |-> closed]

\* reqUrl: the base URL, and "/" and the endpoint when there is one
ComposeUrl_alwaysSlash(base, endpoint) == base \o "/" \o endpoint

ComposeUrl(base, endpoint) ==
    IF endpoint # "" THEN base \o "/" \o endpoint ELSE base

\* the two headers createRequest sets on the new request
ContentHeaders_noAccept(req) ==
    [req EXCEPT !.Header = HeaderSet(@, "Content-Type", "application/json")]

ContentHeaders(req) ==
    [req EXCEPT !.Header = HeaderSet(HeaderSet(@, "Content-Type",
                                               "application/json"),
                                     "Accept", "application/json")]

\* createRequest past the check of the base URL: compose the URL, marshal
\* the payload, build the request, set the two content headers
BuildRequest_ignoresMarshalErr(cl, method, endpoint, data) ==
    LET reqUrl == ComposeUrl(cl.BaseUrl, endpoint)
        m == Marshal(data)
        nr == NewRequestWithContext(method, reqUrl, m.body)
    IN IF nr.err # NilErr
       THEN Outcome(NilReq, NilEnv, nr.err, <<>>, 0, FALSE, FALSE)
       ELSE Outcome(ContentHeaders(nr.req), NilEnv, NilErr, <<>>, 0, FALSE, FALSE)

BuildRequest(cl, method, endpoint, data) ==
    LET reqUrl == ComposeUrl(cl.BaseUrl, endpoint)
        m == Marshal(data)
        nr == NewRequestWithContext(method, reqUrl, m.body)
    IN IF m.err # NilErr
       THEN Outcome(NilReq, NilEnv, m.err, <<>>, 0, FALSE, FALSE)
       ELSE IF nr.err # NilErr
       THEN Outcome(NilReq, NilEnv, nr.err, <<>>, 0, FALSE, FALSE)
       ELSE Outcome(ContentHeaders(nr.req), NilEnv, NilErr, <<>>, 0, FALSE, FALSE)

createRequest_noUrlCheck(cl, method, endpoint, data) ==
    BuildRequest(cl, method, endpoint, data)

createRequest_marshalFirst(cl, method, endpoint, data) ==
    IF Marshal(data).err # NilErr
    THEN Outcome(NilReq, NilEnv, Marshal(data).err, <<>>, 0, FALSE, FALSE)
    ELSE IF cl.BaseUrl = ""
    THEN Outcome(NilReq, NilEnv, ErrEmptyUrl, <<>>, 0, FALSE, FALSE)
    ELSE BuildRequest(cl, method, endpoint, data)

createRequest(cl, method, endpoint, data) ==
    IF cl.BaseUrl = ""
    THEN Outcome(NilReq, NilEnv, ErrEmptyUrl, <<>>, 0, FALSE, FALSE)
    ELSE BuildRequest(cl, method, endpoint, data)

\* ok := res.StatusCode >= 200 && res.StatusCode < 300
IsOk_above200(status) == status > 200 /\ status < 300

IsOk_upTo300(status) == status >= 200 /\ status <= 300

IsOk(status) == status >= 200 /\ status < 300

\* res.StatusCode != http.StatusNoContent && successValue != nil
NeedsDecode_no204(status, sv) == sv.kind # "nil"

NeedsDecode_noNil(status, sv) == status # 204

NeedsDecode_or(status, sv) == status # 204 \/ sv.kind # "nil"

NeedsDecode(status, sv) == status # 204 /\ sv.kind # "nil"

\* the non-2xx branch: decode the body into a fresh ErrorResponse
ErrorBranch_eofOk(req, status, body) ==
    LET d == DecodeStruct("ErrorResponse", body) IN
    IF d.err # NilErr /\ d.err # ErrEOF
    THEN Outcome(req, NilEnv, d.err, <<req>>, 1, TRUE, TRUE)
    ELSE Outcome(req, [isNil |-> FALSE, Status |-> status, Data |-> d.val],
                 NilErr, <<req>>, 1, TRUE, TRUE)

ErrorBranch_partialOnError(req, status, body) ==
    LET d == DecodeStruct("ErrorResponse", body) IN
    IF d.err # NilErr
    THEN Outcome(req, [isNil |-> FALSE, Status |-> status, Data |-> NilData],
                 d.err, <<req>>, 1, TRUE, TRUE)
    ELSE Outcome(req, [isNil |-> FALSE, Status |-> status, Data |-> d.val],
                 NilErr, <<req>>, 1, TRUE, TRUE)

ErrorBranch(req, status, body) ==
    LET d == DecodeStruct("ErrorResponse", body) IN
    IF d.err # NilErr
    THEN Outcome(req, NilEnv, d.err, <<req>>, 1, TRUE, TRUE)
    ELSE Outcome(req, [isNil |-> FALSE, Status |-> status, Data |-> d.val],
                 NilErr, <<req>>, 1, TRUE, TRUE)

\* the 2xx branch
SuccessBranch_leaksOnError(req, status, body, sv) ==
    IF NeedsDecode(status, sv)
    THEN LET d == DecodeSuccess(sv, body) IN
         IF d.err # NilErr
         THEN Outcome(req, NilEnv, d.err, <<req>>, 1, TRUE, FALSE)
         ELSE Outcome(req, [isNil |-> FALSE, Status |-> status, Data |-> d.data],
                      NilErr, <<req>>, 1, TRUE, TRUE)
    ELSE Outcome(req, [isNil |-> FALSE, Status |-> status, Data |-> NilData],
                 NilErr, <<req>>, 0, TRUE, TRUE)

SuccessBranch(req, status, body, sv) ==
    IF NeedsDecode(status, sv)
    THEN LET d == DecodeSuccess(sv, body) IN
         IF d.err # NilErr
         THEN Outcome(req, NilEnv, d.err, <<req>>, 1, TRUE, TRUE)
         ELSE Outcome(req, [isNil |-> FALSE, Status |-> status, Data |-> d.data],
                      NilErr, <<req>>, 1, TRUE, TRUE)
    ELSE Outcome(req, [isNil |-> FALSE, Status |-> status, Data |-> NilData],
                 NilErr, <<req>>, 0, TRUE, TRUE)

\* everything after a response came back; the deferred Close runs on every
\* return
HandleResponse(req, sv, tr) ==
    IF ~IsOk(tr.status)
    THEN ErrorBranch(req, tr.status, tr.body)
    ELSE SuccessBranch(req, tr.status, tr.body, sv)

\* req.Header.Set("apikey", c.ApiKey)
WithApiKey_add(cl, req) ==
    [req EXCEPT !.Header = [@ EXCEPT ![Canonical("apikey")] = Append(@, cl.ApiKey)]]

WithApiKey(cl, req) ==
    [req EXCEPT !.Header = HeaderSet(@, "apikey", cl.ApiKey)]

\* tr is what the transport's Do does with the request: an error, or a
\* response with a status code and a body
sendRequest_wrapsErr(cl, req, sv, tr) ==
    LET r == WithApiKey(cl, req) IN
    IF tr.err # NilErr
    THEN Outcome(r, NilEnv, "send: " \o tr.err, <<r>>, 0, FALSE, FALSE)
    ELSE HandleResponse(r, sv, tr)

sendRequest_retries(cl, req, sv, tr) ==
    LET r == WithApiKey(cl, req) IN
    IF tr.err # NilErr
    THEN Outcome(r, NilEnv, tr.err, <<r, r>>, 0, FALSE, FALSE)
    ELSE HandleResponse(r, sv, tr)

sendRequest(cl, req, sv, tr) ==
    LET r == WithApiKey(cl, req) IN
    IF tr.err # NilErr
    THEN Outcome(r, NilEnv, tr.err, <<r>>, 0, FALSE, FALSE)
    ELSE HandleResponse(r, sv, tr)

createAndSendRequest_sendsAnyway(cl, method, endpoint, data, sv, tr) ==
    LET b == createRequest(cl, method, endpoint, data) IN
    IF b.err # NilErr
    THEN LET r == sendRequest(cl, [isNil |-> FALSE, Method |-> "GET",
                                   URL |-> cl.BaseUrl, Header |-> NoHeader,
                                   Body |-> JNull], sv, tr)
         IN [r EXCEPT !.req = NilReq, !.env = NilEnv, !.err = b.err]
    ELSE sendRequest(cl, b.req, sv, tr)

createAndSendRequest(cl, method, endpoint, data, sv, tr) ==
    LET b == createRequest(cl, method, endpoint, data) IN
    IF b.err # NilErr
    THEN Outcome(NilReq, NilEnv, b.err, <<>>, 0, FALSE, FALSE)
    ELSE sendRequest(cl, b.req, sv, tr)

(***************************************************************************)
(* auth.go: the six operations.                                            *)
(***************************************************************************)
\* req.Header.Set("Authorization", fmt.Sprintf("Bearer %s", token))
WithBearer_noScheme(req, token) ==
    [req EXCEPT !.Header = HeaderSet(@, "Authorization", token)]

WithBearer(req, token) ==
    [req EXCEPT !.Header = HeaderSet(@, "Authorization", "Bearer " \o token)]

\* createRequest, the Authorization header, sendRequest with no success
\* shape: the body SignOut and ResetPassword share
BuildAuthorizeSend_dropsSendErr(cl, method, endpoint, data, token, tr) ==
    LET b == createRequest(cl, method, endpoint, data) IN
    IF b.err # NilErr
    THEN Outcome(NilReq, NilEnv, b.err, <<>>, 0, FALSE, FALSE)
    ELSE [sendRequest(cl, WithBearer(b.req, token), NilSV, tr)
             EXCEPT !.err = NilErr]

BuildAuthorizeSend(cl, method, endpoint, data, token, tr) ==
    LET b == createRequest(cl, method, endpoint, data) IN
    IF b.err # NilErr
    THEN Outcome(NilReq, NilEnv, b.err, <<>>, 0, FALSE, FALSE)
    ELSE LET r == sendRequest(cl, WithBearer(b.req, token), NilSV, tr) IN
         IF r.err # NilErr THEN [r EXCEPT !.env = NilEnv] ELSE r

SignUp(cl, credentials, tr) ==
    createAndSendRequest(cl, "POST", "signup", credentials, PtrSignUp, tr)

SignIn(cl, credentials, tr) ==
    createAndSendRequest(cl, "POST", "token?grant_type=password", credentials,
                         PtrAuthenticated, tr)

SignOut(cl, token, tr) ==
    BuildAuthorizeSend(cl, "POST", "logout", NilPayload, token, tr)

RefreshToken(cl, refreshToken, tr) ==
    createAndSendRequest(cl, "POST", "token?grant_type=refresh_token",
                         MapPayload("refresh_token", refreshToken),
                         PtrAuthenticated, tr)

ForgottenPassword(cl, email, tr) ==
    createAndSendRequest(cl, "POST", "recover", MapPayload("email", email),
                         NilSV, tr)

ResetPassword_post(cl, token, password, tr) ==
    BuildAuthorizeSend(cl, "POST", "user?type=recovery",
                       MapPayload("password", password), token, tr)

ResetPassword(cl, token, password, tr) ==
    BuildAuthorizeSend(cl, "PUT", "user?type=recovery",
                       MapPayload("password", password), token, tr)

(***************************************************************************)
(* The inputs of the model.                                                *)
(***************************************************************************)
ApiKeys == {"abc123", ""}

Methods == {"POST", "", "BAD METHOD"}

Emails == {"test@example.com"}

Passwords == {"cba321"}

Tokens == {"abc123", "tok2"}

Payloads == {NilPayload, ChanPayload} \cup
            {CredsPayload(e, p) : e \in Emails, p \in Passwords}

Statuses == {199, 200, 201, 204, 299, 300, 400, 500}

Obj1(k1, v1) == [k \in {k1} |-> v1]

Obj2(k1, v1, k2, v2) == [k \in {k1, k2} |-> IF k = k1 THEN v1 ELSE v2]

Obj3(k1, v1, k2, v2, k3, v3) ==
    [k \in {k1, k2, k3} |-> IF k = k1 THEN v1 ELSE IF k = k2 THEN v2 ELSE v3]

\* bodies with all three keys of the error shape, of the right types
ErrorShapedBodies ==
    { JsonBody(JObj(Obj3("code", JNum(n), "error_code", JStr(ec), "msg", JStr(m)))) :
        n \in {400, 422}, ec \in {"used_foo_bar"}, m \in {"Bad Request"} } \cup
    { JsonBody(JObj(Obj3("code", JNum(401), "error_code", JStr("bad_jwt"),
                         "msg", JStr("Unauthorized"))
                    @@ Obj1("foo", JStr("bar")))) }

SyntaxBodies ==
    { BadBody("invalid character '!' looking for beginning of value"),
      BadBody("invalid character '}' looking for beginning of object key string") }

ObjectBodies ==
    ErrorShapedBodies \cup
    { JsonBody(JObj(NoObject)),
      JsonBody(JObj(Obj1("msg", JStr("only msg")))),
      JsonBody(JObj(Obj2("code", JStr("400"), "msg", JStr("Bad Request")))),
      JsonBody(JObj(Obj1("foo", JStr("bar")))),
      JsonBody(JObj(Obj3("id", JStr("u1"), "email", JStr("test@example.com"),
                         "created_at", JStr("2024-01-02T03:04:05Z")))),
      JsonBody(JObj(Obj2("id", JStr("u1"), "created_at", JStr("yesterday")))),
      JsonBody(JObj(Obj3("access_token", JStr("at"), "expires_in", JNum(3600),
                         "refresh_token", JStr("rt")))),
      JsonBody(JObj(Obj1("expires_in", JStr("3600")))) }

Bodies ==
    {EmptyBody} \cup SyntaxBodies \cup ObjectBodies \cup
    {JsonBody(JNull), JsonBody(JNum(5))}

TransportErrors == {"http client error", "context deadline exceeded"}

\* what Do can do: fail, or return a response
TransportOutcomes ==
    { [err |-> e, status |-> 0, body |-> EmptyBody] : e \in TransportErrors } \cup
    { [err |-> NilErr, status |-> st, body |-> b] : st \in Statuses, b \in Bodies }

\* lists of at most n stale values of a header
RECURSIVE StaleValues(_)
StaleValues(n) ==
    IF n = 0 THEN {<<>>}
    ELSE StaleValues(n - 1) \cup
         {Append(vs, "stale") : vs \in {w \in StaleValues(n - 1) : Len(w) = n - 1}}

\* the requests a caller hands to sendRequest: built by createRequest, then
\* possibly given an Authorization header, possibly carrying apikey values
IncomingRequests ==
    LET ref == [BaseUrl |-> GoodBase, ApiKey |-> "abc123"]
        built == { createRequest(ref, "POST", "signup",
                                 CredsPayload("test@example.com", "cba321")).req,
                   createRequest(ref, "", "", NilPayload).req }
        authed == built \cup {WithBearer(r, "abc123") : r \in built}
    IN { [r EXCEPT !.Header = [@ EXCEPT !["Apikey"] = vs]] :
            r \in authed, vs \in StaleValues(MaxHdrVals) }

(***************************************************************************)
(* The state machine.                                                      *)
(***************************************************************************)
Idle == [op |-> "idle"]

Call(op, method, endpoint, data, sv, req, token, tr, res) ==
    [op |-> op, method |-> method, endpoint |-> endpoint, data |-> data,
     sv |-> sv, reqIn |-> req, token |-> token, tr |-> tr, res |-> res]

Callers == 1 .. NumCallers

\* a caller that is not in a call
IdleCall == [pc |-> "idle"]

\* a client: newClient's, or a struct literal as the tests build it
Init ==
    /\ c \in [BaseUrl : BaseUrls, ApiKey : ApiKeys, HttpClient : {"http.Client"}]
    /\ last = Idle
    /\ calls = [p \in Callers |-> IdleCall]

CreateRequest_storesUrl ==
    /\ last = Idle
    /\ \E m \in Methods, e \in Endpoints, d \in Payloads :
          /\ last' = Call("createRequest", m, e, d, NilSV, NilReq, "",
                          [err |-> NilErr, status |-> 0, body |-> EmptyBody],
                          createRequest(c, m, e, d))
          /\ c' = [c EXCEPT !.BaseUrl = ComposeUrl(@, e)]
    /\ UNCHANGED calls

CreateRequest ==
    /\ last = Idle
    /\ \E m \in Methods, e \in Endpoints, d \in Payloads :
          last' = Call("createRequest", m, e, d, NilSV, NilReq, "",
                       [err |-> NilErr, status |-> 0, body |-> EmptyBody],
                       createRequest(c, m, e, d))
    /\ UNCHANGED <<c, calls>>

SendRequest ==
    /\ last = Idle
    /\ \E r \in IncomingRequests, sv \in SuccessValues, tr \in TransportOutcomes :
          last' = Call("sendRequest", "", "", NilPayload, sv, r, "", tr,
                       sendRequest(c, r, sv, tr))
    /\ UNCHANGED <<c, calls>>

CreateAndSendRequest ==
    /\ last = Idle
    /\ \E m \in Methods, e \in Endpoints, d \in Payloads, sv \in SuccessValues,
          tr \in TransportOutcomes :
          last' = Call("createAndSendRequest", m, e, d, sv, NilReq, "", tr,
                       createAndSendRequest(c, m, e, d, sv, tr))
    /\ UNCHANGED <<c, calls>>

DoSignUp ==
    /\ last = Idle
    /\ \E e \in Emails, p \in Passwords, tr \in TransportOutcomes :
          last' = Call("SignUp", "POST", "signup", CredsPayload(e, p), PtrSignUp,
                       NilReq, "", tr, SignUp(c, CredsPayload(e, p), tr))
    /\ UNCHANGED <<c, calls>>

DoSignIn ==
    /\ last = Idle
    /\ \E e \in Emails, p \in Passwords, tr \in TransportOutcomes :
          last' = Call("SignIn", "POST", "token?grant_type=password",
                       CredsPayload(e, p), PtrAuthenticated, NilReq, "", tr,
                       SignIn(c, CredsPayload(e, p), tr))
    /\ UNCHANGED <<c, calls>>

DoSignOut ==
    /\ last = Idle
    /\ \E t \in Tokens, tr \in TransportOutcomes :
          last' = Call("SignOut", "POST", "logout", NilPayload, NilSV, NilReq,
                       t, tr, SignOut(c, t, tr))
    /\ UNCHANGED <<c, calls>>

DoRefreshToken ==
    /\ last = Idle
    /\ \E t \in Tokens, tr \in TransportOutcomes :
          last' = Call("RefreshToken", "POST", "token?grant_type=refresh_token",
                       MapPayload("refresh_token", t), PtrAuthenticated, NilReq,
                       "", tr, RefreshToken(c, t, tr))
    /\ UNCHANGED <<c, calls>>

DoForgottenPassword ==
    /\ last = Idle
    /\ \E e \in Emails, tr \in TransportOutcomes :
          last' = Call("ForgottenPassword", "POST", "recover",
                       MapPayload("email", e), NilSV, NilReq, "", tr,
                       ForgottenPassword(c, e, tr))
    /\ UNCHANGED <<c, calls>>

DoResetPassword ==
    /\ last = Idle
    /\ \E t \in Tokens, p \in Passwords, tr \in TransportOutcomes :
          last' = Call("ResetPassword", "PUT", "user?type=recovery",
                       MapPayload("password", p), NilSV, NilReq, t, tr,
                       ResetPassword(c, t, p, tr))
    /\ UNCHANGED <<c, calls>>

\* the caller takes the result
Return ==
    /\ last # Idle
    /\ last' = Idle
    /\ UNCHANGED <<c, calls>>

Next ==
    \/ CreateRequest
    \/ SendRequest
    \/ CreateAndSendRequest
    \/ DoSignUp
    \/ DoSignIn
    \/ DoSignOut
    \/ DoRefreshToken
    \/ DoForgottenPassword
    \/ DoResetPassword
    \/ Return

Spec == Init /\ [][Next]_vars

(***************************************************************************)
(* Concurrent callers.  Each caller runs one auth operation at a time on   *)
(* the shared client; a call is split where it reads the client, hands the *)
(* request on, or waits for the transport.  Its locals (req, res) live in  *)
(* calls[p].  `overlap` is bookkeeping for the properties: whether another *)
(* call was in progress when this one began.                               *)
(***************************************************************************)
\* an operation with its arguments, and what auth.go passes down for it
OpArgs(op, method, endpoint, data, sv, bearer, token) ==
    [op |-> op, method |-> method, endpoint |-> endpoint, data |-> data,
     sv |-> sv, bearer |-> bearer, token |-> token]

ConcCalls ==
    { OpArgs("SignUp", "POST", "signup", CredsPayload(e, "cba321"), PtrSignUp,
             FALSE, "") : e \in Emails } \cup
    { OpArgs("SignOut", "POST", "logout", NilPayload, NilSV, TRUE, t) :
         t \in Tokens }

ConcOutcomes ==
    { [err |-> "http client error", status |-> 0, body |-> EmptyBody],
      [err |-> NilErr, status |-> 200,
       body |-> JsonBody(JObj(Obj1("id", JStr("u1"))))],
      [err |-> NilErr, status |-> 400,
       body |-> JsonBody(JObj(Obj1("msg", JStr("denied"))))],
      [err |-> NilErr, status |-> 200, body |-> BadBody("invalid character")] }

NoTr == [err |-> NilErr, status |-> 0, body |-> EmptyBody]

NoRes == Outcome(NilReq, NilEnv, NilErr, <<>>, 0, FALSE, FALSE)

InCall(pc, args, req, tr, res, overlap) ==
    [pc |-> pc, args |-> args, req |-> req, tr |-> tr, res |-> res,
     overlap |-> overlap]

InProgress(cs, q) == cs[q].pc \notin {"idle", "done"}

\* the request a call works on is its own local variable
RequestInHand_shared(cs, p) ==
    LET holders == {q \in Callers : cs[q].pc \in {"authorize", "apikey", "do"}}
    IN cs[CHOOSE q \in holders : \A r \in holders : q <= r].req

RequestInHand(cs, p) == cs[p].req

Begin(p) ==
    /\ calls[p].pc = "idle"
    /\ \E a \in ConcCalls :
          calls' = [calls EXCEPT ![p] =
                       InCall("create", a, NilReq, NoTr, NoRes,
                              \E q \in Callers \ {p} : InProgress(calls, q))]
    /\ UNCHANGED <<c, last>>

\* req, err := c.createRequest(...)
StepCreate(p) ==
    /\ calls[p].pc = "create"
    /\ LET a == calls[p].args
           b == createRequest(c, a.method, a.endpoint, a.data)
       IN calls' = [calls EXCEPT ![p] =
                       IF b.err # NilErr
                       THEN InCall("done", a, NilReq, NoTr,
                                   Outcome(NilReq, NilEnv, b.err, <<>>, 0,
                                           FALSE, FALSE), @.overlap)
                       ELSE InCall(IF a.bearer THEN "authorize" ELSE "apikey",
                                   a, b.req, NoTr, NoRes, @.overlap)]
    /\ UNCHANGED <<c, last>>

\* req.Header.Set("Authorization", ...)
StepAuthorize(p) ==
    /\ calls[p].pc = "authorize"
    /\ calls' = [calls EXCEPT ![p] =
                    InCall("apikey", @.args,
                           WithBearer(RequestInHand(calls, p), @.args.token),
                           NoTr, NoRes, @.overlap)]
    /\ UNCHANGED <<c, last>>

\* req.Header.Set("apikey", c.ApiKey)
StepApiKey(p) ==
    /\ calls[p].pc = "apikey"
    /\ calls' = [calls EXCEPT ![p] =
                    InCall("do", @.args, WithApiKey(c, RequestInHand(calls, p)),
                           NoTr, NoRes, @.overlap)]
    /\ UNCHANGED <<c, last>>

\* res, err := c.HttpClient.Do(req)
StepDo(p) ==
    /\ calls[p].pc = "do"
    /\ \E tr \in ConcOutcomes :
          LET r == RequestInHand(calls, p) IN
          calls' = [calls EXCEPT ![p] =
                       IF tr.err # NilErr
                       THEN InCall("done", @.args, r, tr,
                                   Outcome(r, NilEnv, tr.err, <<r>>, 0, FALSE,
                                           FALSE), @.overlap)
                       ELSE InCall("response", @.args, r, tr,
                                   Outcome(r, NilEnv, NilErr, <<r>>, 0, TRUE,
                                           FALSE), @.overlap)]
    /\ UNCHANGED <<c, last>>

\* the rest of sendRequest, and SignOut's check of its error
StepRespond(p) ==
    /\ calls[p].pc = "response"
    /\ LET a == calls[p].args
           h == HandleResponse(calls[p].req, a.sv, calls[p].tr)
       IN calls' = [calls EXCEPT ![p] =
                       InCall("done", a, @.req, @.tr,
                              IF a.bearer /\ h.err # NilErr
                              THEN [h EXCEPT !.env = NilEnv] ELSE h,
                              @.overlap)]
    /\ UNCHANGED <<c, last>>

\* the caller takes the result
Finish(p) ==
    /\ calls[p].pc = "done"
    /\ calls' = [calls EXCEPT ![p] = IdleCall]
    /\ UNCHANGED <<c, last>>

ConcNext ==
    \E p \in Callers :
        \/ Begin(p)
        \/ StepCreate(p)
        \/ StepAuthorize(p)
        \/ StepApiKey(p)
        \/ StepDo(p)
        \/ StepRespond(p)
        \/ Finish(p)

ConcSpec == Init /\ [][ConcNext]_vars

(***************************************************************************)
(* Properties.                                                             *)
(***************************************************************************)
Returned == last # Idle

\* sendRequest was called and the transport returned a response
SendGotResponse ==
    /\ Returned
    /\ last.op = "sendRequest"
    /\ last.tr.err = NilErr

InSuccessRange(st) == st >= 200 /\ st < 300

\* the body is one JSON object with a number under code and strings under
\* error_code and msg
ErrorShaped(body) ==
    /\ body.k = "json"
    /\ body.v.t = "object"
    /\ {"code", "error_code", "msg"} \subseteq DOMAIN body.v.o
    /\ body.v.o["code"].t = "number"
    /\ body.v.o["error_code"].t = "string"
    /\ body.v.o["msg"].t = "string"

\* C1: a response outside [200,300) with an error-shaped body {code,
\* error_code, msg} makes sendRequest return a nil error and an envelope with
\* the HTTP status and an ErrorResponse holding exactly those three body
\* fields, whatever success shape was passed.
C1_ErrorShapeIsData ==
    (SendGotResponse /\ ~InSuccessRange(last.tr.status) /\ ErrorShaped(last.tr.body))
    => /\ last.res.err = NilErr
       /\ ~last.res.env.isNil
       /\ last.res.env.Status = last.tr.status
       /\ last.res.env.Data =
             [kind |-> "ErrorResponse",
              Status |-> last.tr.body.v.o["code"].n,
              ErrorCode |-> last.tr.body.v.o["error_code"].s,
              Message |-> last.tr.body.v.o["msg"].s]

C1_Witness ==
    /\ SendGotResponse
    /\ last.tr.status = 400
    /\ ErrorShaped(last.tr.body)
    /\ last.tr.body.v.o["code"].n = 422
    /\ last.sv = PtrSignUp
    /\ last.res.err = NilErr
    /\ last.res.env.Data.Status = 422
    /\ last.res.env.Data.Message = "Bad Request"

StrAt(o, k) == IF k \in DOMAIN o THEN o[k].s ELSE ""

NumAt(o, k) == IF k \in DOMAIN o THEN o[k].n ELSE 0

AllOfType(o, keys, t) == \A k \in keys \cap DOMAIN o : o[k].t = t

\* the body is a JSON object whose keys fit the fields of the shape
MatchesShape(sv, body) ==
    /\ body.k = "json"
    /\ body.v.t = "object"
    /\ sv = PtrSignUp =>
          /\ AllOfType(body.v.o, {"id", "email", "created_at"}, "string")
          /\ "created_at" \in DOMAIN body.v.o =>
                body.v.o["created_at"].s \in ValidTimes
    /\ sv = PtrAuthenticated =>
          /\ AllOfType(body.v.o, {"access_token", "token_type", "refresh_token"},
                       "string")
          /\ AllOfType(body.v.o, {"expires_in"}, "number")

\* the shape with the values of the body under its json tags
ShapeOf(sv, o) ==
    CASE sv = PtrSignUp ->
            [kind |-> "SignUp", ID |-> StrAt(o, "id"), Email |-> StrAt(o, "email"),
             CreatedAt |-> IF "created_at" \in DOMAIN o THEN o["created_at"].s
                           ELSE ZeroTime]
      [] sv = PtrAuthenticated ->
            [kind |-> "Authenticated", AccessToken |-> StrAt(o, "access_token"),
             TokenType |-> StrAt(o, "token_type"),
             ExpiresIn |-> NumAt(o, "expires_in"),
             RefreshToken |-> StrAt(o, "refresh_token")]
      [] OTHER -> [kind |-> "map", m |-> o]

\* C2: a response in [200,300) other than 204, with a non-nil success shape
\* and a JSON body matching it, makes sendRequest return a nil error and an
\* envelope with the response's status and the shape decoded from the body.
C2_SuccessShapeDecoded ==
    (/\ SendGotResponse
     /\ InSuccessRange(last.tr.status)
     /\ last.tr.status # 204
     /\ last.sv # NilSV
     /\ MatchesShape(last.sv, last.tr.body))
    => /\ last.res.err = NilErr
       /\ ~last.res.env.isNil
       /\ last.res.env.Status = last.tr.status
       /\ last.res.env.Data = ShapeOf(last.sv, last.tr.body.v.o)

C2_Witness ==
    /\ SendGotResponse
    /\ last.tr.status = 200
    /\ last.sv = PtrAuthenticated
    /\ MatchesShape(last.sv, last.tr.body)
    /\ last.res.err = NilErr
    /\ last.res.env.Data.AccessToken = "at"
    /\ last.res.env.Data.ExpiresIn = 3600

\* sendRequest or createAndSendRequest returned an envelope
EnvelopeReturned ==
    /\ Returned
    /\ last.op \in {"sendRequest", "createAndSendRequest"}
    /\ ~last.res.env.isNil

\* the kind of value a success shape holds once a non-null value is decoded
KindDecoded(sv, v) ==
    CASE sv.kind = "ptrStruct" -> sv.ty
      [] sv.kind = "ptrMap" -> "map"
      [] OTHER -> IF v.t = "object" THEN "map" ELSE "scalar"

\* C3 as stated: in every returned envelope Data is nil if and only if the
\* status is 204 or no success shape was requested; otherwise Data is the
\* success shape in [200,300) and the error shape outside.
C3_AsStated ==
    EnvelopeReturned
    => /\ (last.res.env.Data = NilData)
             <=> (last.tr.status = 204 \/ last.sv = NilSV)
       /\ last.res.env.Data # NilData
             => IF InSuccessRange(last.tr.status)
                THEN last.res.env.Data.kind = KindDecoded(last.sv, last.tr.body.v)
                ELSE last.res.env.Data.kind = "ErrorResponse"

\* C3 (amended): in every envelope returned by sendRequest or
\* createAndSendRequest, Data is nil if and only if the status is in
\* [200,300) and either the status is 204, or no success shape was requested,
\* or the body is the JSON value null; in every other returned envelope Data
\* is the decoded success shape when the status is in [200,300) and the
\* decoded error shape when it is outside.
C3_DataNilIff ==
    EnvelopeReturned
    => /\ (last.res.env.Data = NilData)
             <=> /\ InSuccessRange(last.tr.status)
                 /\ \/ last.tr.status = 204
                    \/ last.sv = NilSV
                    \/ last.tr.body = JsonBody(JNull)
       /\ last.res.env.Data # NilData
             => IF InSuccessRange(last.tr.status)
                THEN last.res.env.Data.kind = KindDecoded(last.sv, last.tr.body.v)
                ELSE last.res.env.Data.kind = "ErrorResponse"

C3_Witness ==
    /\ EnvelopeReturned
    /\ last.op = "createAndSendRequest"
    /\ last.tr.status = 400
    /\ last.sv = NilSV
    /\ last.res.env.Data.kind = "ErrorResponse"

\* C4 as stated: a syntactically invalid body makes sendRequest return an
\* error and no envelope, for every status code and every success shape.
C4_AsStated ==
    (SendGotResponse /\ last.tr.body \in SyntaxBodies)
    => /\ last.res.err # NilErr
       /\ last.res.env.isNil

\* C4 (amended): a syntactically invalid body makes sendRequest return a
\* non-nil error and a nil envelope for every status code outside [200,300)
\* with every success shape, and for every status code in [200,300) other
\* than 204 with every non-nil success shape.
C4_InvalidJsonFails ==
    (/\ SendGotResponse
     /\ last.tr.body \in SyntaxBodies
     /\ \/ ~InSuccessRange(last.tr.status)
        \/ last.tr.status # 204 /\ last.sv # NilSV)
    => /\ last.res.err = last.tr.body.diag
       /\ last.res.env.isNil

C4_Witness ==
    /\ SendGotResponse
    /\ last.tr.body \in SyntaxBodies
    /\ last.tr.status = 200
    /\ last.sv = PtrMap
    /\ last.res.err # NilErr
    /\ last.res.env.isNil

\* C5: a 204 response makes sendRequest return a nil error and an envelope
\* with Status 204 and Data nil, whatever the body and the success shape,
\* and the body is not decoded.
C5_NoContentNoData ==
    (SendGotResponse /\ last.tr.status = 204)
    => /\ last.res.err = NilErr
       /\ ~last.res.env.isNil
       /\ last.res.env.Status = 204
       /\ last.res.env.Data = NilData
       /\ last.res.decodes = 0

C5_Witness ==
    /\ SendGotResponse
    /\ last.tr.status = 204
    /\ last.tr.body \in SyntaxBodies
    /\ last.sv = PtrSignUp
    /\ last.res.err = NilErr
    /\ last.res.env.Data = NilData

\* an operation that requests no success shape got a response
NoShapeOpGotResponse ==
    /\ Returned
    /\ last.op \in {"SignOut", "ForgottenPassword", "ResetPassword"}
    /\ last.res.sent # <<>>
    /\ last.tr.err = NilErr

\* C6: on a response in [200,300), sendRequest called with a nil success
\* shape returns a nil error and an envelope with the response's status and
\* Data nil, without decoding the body; so do SignOut, ForgottenPassword and
\* ResetPassword on every 2xx response.
C6_NoShapeNoData ==
    (/\ \/ SendGotResponse /\ last.sv = NilSV
        \/ NoShapeOpGotResponse
     /\ InSuccessRange(last.tr.status))
    => /\ last.res.err = NilErr
       /\ ~last.res.env.isNil
       /\ last.res.env.Status = last.tr.status
       /\ last.res.env.Data = NilData
       /\ last.res.decodes = 0

C6_Witness ==
    /\ NoShapeOpGotResponse
    /\ last.op = "ForgottenPassword"
    /\ last.tr.status = 200
    /\ last.tr.body \in ErrorShapedBodies
    /\ last.res.err = NilErr
    /\ last.res.env.Data = NilData

\* C7: when the transport's Do returns an error, sendRequest returns that
\* error unchanged and a nil envelope, and no response body is decoded.
C7_TransportErrorVerbatim ==
    (Returned /\ last.op = "sendRequest" /\ last.tr.err # NilErr)
    => /\ last.res.err = last.tr.err
       /\ last.res.env.isNil
       /\ last.res.decodes = 0
       /\ ~last.res.opened

C7_Witness ==
    /\ Returned
    /\ last.op = "sendRequest"
    /\ last.tr.err = "http client error"
    /\ last.res.err = "http client error"
    /\ last.res.env.isNil

\* C8: on a client with an empty base URL, createRequest fails with
\* "supabase api url is empty" and returns no request, and
\* createAndSendRequest and every auth operation return that error and a nil
\* envelope without the transport having received a request.
C8_EmptyBaseUrlFails ==
    (Returned /\ c.BaseUrl = "" /\ last.op # "sendRequest")
    => /\ last.res.err = "supabase api url is empty"
       /\ last.res.req.isNil
       /\ last.res.env.isNil
       /\ last.res.sent = <<>>

C8_Witness ==
    /\ Returned
    /\ c.BaseUrl = ""
    /\ last.op = "SignOut"
    /\ last.tr.err = NilErr
    /\ last.tr.status = 204
    /\ last.res.err = "supabase api url is empty"

\* C9: on a response outside [200,300) whose body is empty or malformed
\* JSON, sendRequest fails with the decoder's error (EOF, or the syntax
\* diagnostic) and returns a nil envelope.
C9_BadErrorBodyFails ==
    (/\ SendGotResponse
     /\ ~InSuccessRange(last.tr.status)
     /\ last.tr.body \in {EmptyBody} \cup SyntaxBodies)
    => /\ last.res.err = IF last.tr.body = EmptyBody THEN "EOF"
                         ELSE last.tr.body.diag
       /\ last.res.env.isNil

C9_Witness ==
    /\ SendGotResponse
    /\ last.tr.status = 500
    /\ last.tr.body = EmptyBody
    /\ last.res.err = "EOF"
    /\ last.res.env.isNil

\* C10: every request the transport receives carries the apikey header with
\* the single value ApiKey, whatever apikey values the request carried
\* before, and sendRequest leaves the request's other headers as they were.
C10_ApiKeyOnEveryRequest ==
    Returned
    => /\ \A i \in DOMAIN last.res.sent :
             /\ last.res.sent[i].Header["Apikey"] = <<c.ApiKey>>
             /\ HeaderGet(last.res.sent[i].Header, "apikey") = c.ApiKey
       /\ last.op = "sendRequest"
             => /\ Len(last.res.sent) = 1
                /\ \A h \in HeaderNames \ {"Apikey"} :
                      last.res.sent[1].Header[h] = last.reqIn.Header[h]

C10_Witness ==
    /\ Returned
    /\ last.op = "sendRequest"
    /\ last.reqIn.Header["Apikey"] = <<"stale", "stale">>
    /\ last.reqIn.Header["Authorization"] = <<"Bearer abc123">>
    /\ c.ApiKey = "abc123"
    /\ last.res.sent[1].Header["Apikey"] = <<"abc123">>
    /\ last.res.sent[1].Header["Authorization"] = <<"Bearer abc123">>

\* C11: createAndSendRequest is createRequest followed by sendRequest: when
\* createRequest fails it returns a nil envelope and that error and the
\* transport receives nothing; otherwise it returns the envelope and the
\* error sendRequest returns for the built request and the same success
\* shape, and the transport receives what sendRequest sends.
C11_CreateThenSend ==
    (Returned /\ last.op = "createAndSendRequest")
    => LET b == createRequest(c, last.method, last.endpoint, last.data) IN
       IF b.err # NilErr
       THEN /\ last.res.err = b.err
            /\ last.res.env = NilEnv
            /\ last.res.sent = <<>>
            /\ last.res.decodes = 0
       ELSE LET s == sendRequest(c, b.req, last.sv, last.tr) IN
            /\ last.res.err = s.err
            /\ last.res.env = s.env
            /\ last.res.sent = s.sent
            /\ last.res.decodes = s.decodes

C11_Witness ==
    /\ Returned
    /\ last.op = "createAndSendRequest"
    /\ c.BaseUrl = GoodBase
    /\ last.method = "POST"
    /\ last.endpoint = "signup"
    /\ last.sv = PtrSignUp
    /\ last.tr.err = NilErr
    /\ last.tr.status = 200
    /\ last.res.err = NilErr
    /\ last.res.env.Data.kind = "SignUp"
    /\ last.res.env.Data.ID = "u1"

\* the transport received a request and returned a response
GotResponse ==
    /\ Returned
    /\ last.res.sent # <<>>
    /\ last.tr.err = NilErr

\* C12: whenever the transport returns a response, the call has closed the
\* response body when it returns: on the non-2xx path, the 2xx decode path,
\* the 204 / no-shape path and after a failed decode on either path; a call
\* that got no response closes nothing.
C12_BodyClosed ==
    Returned
    => /\ GotResponse => last.res.opened /\ last.res.closed
       /\ last.op = "sendRequest" /\ last.tr.err = NilErr => GotResponse
       /\ last.res.closed => GotResponse

C12_Witness ==
    /\ GotResponse
    /\ last.op = "sendRequest"
    /\ last.tr.status = 200
    /\ last.sv = PtrSignUp
    /\ last.tr.body \in SyntaxBodies
    /\ last.res.err # NilErr
    /\ last.res.decodes = 1
    /\ last.res.closed

\* C13: within one call the transport's Do is invoked at most once, exactly
\* once by sendRequest, and a call that ends with a transport error or a
\* decode error has invoked it once.
C13_NoRetry ==
    Returned
    => /\ Len(last.res.sent) <= 1
       /\ last.op = "sendRequest" => Len(last.res.sent) = 1
       /\ last.op = "createRequest" => Len(last.res.sent) = 0
       /\ last.res.decodes <= 1
       /\ last.res.decodes = 1 => Len(last.res.sent) = 1

C13_Witness ==
    /\ Returned
    /\ last.op = "createAndSendRequest"
    /\ last.tr.err = "context deadline exceeded"
    /\ last.res.err = "context deadline exceeded"
    /\ Len(last.res.sent) = 1

\* an auth operation whose request reached the transport
OpSent(ops) ==
    /\ Returned
    /\ last.op \in ops
    /\ last.res.sent # <<>>

\* C16: the request the transport receives for SignOut and ResetPassword
\* carries Authorization: Bearer <token> together with apikey, Content-Type
\* and Accept; the request of each of the other four operations carries no
\* Authorization header.
C16_BearerOnlyWhereSet ==
    /\ OpSent({"SignOut", "ResetPassword"})
          => last.res.sent[1].Header =
                [h \in HeaderNames |->
                    CASE h = "Authorization" -> <<"Bearer " \o last.token>>
                      [] h = "Apikey" -> <<c.ApiKey>>
                      [] OTHER -> <<"application/json">>]
    /\ OpSent({"SignUp", "SignIn", "RefreshToken", "ForgottenPassword"})
          => last.res.sent[1].Header =
                [h \in HeaderNames |->
                    CASE h = "Authorization" -> <<>>
                      [] h = "Apikey" -> <<c.ApiKey>>
                      [] OTHER -> <<"application/json">>]

C16_Witness ==
    /\ OpSent({"ResetPassword"})
    /\ last.token = "tok2"
    /\ c.ApiKey = "abc123"
    /\ HeaderGet(last.res.sent[1].Header, "Authorization") = "Bearer tok2"
    /\ HeaderGet(last.res.sent[1].Header, "apikey") = "abc123"
    /\ HeaderGet(last.res.sent[1].Header, "Content-Type") = "application/json"

\* the operation's request, as the transport received it, has this method,
\* this endpoint under the base URL and this body
SentIs(method, endpoint, body) ==
    /\ last.res.sent[1].Method = method
    /\ last.res.sent[1].URL = c.BaseUrl \o "/" \o endpoint
    /\ last.res.sent[1].Body = body

CredsBody(d) == JObj(Obj2("Email", JStr(d.Email), "Password", JStr(d.Password)))

\* on a 200 response whose body fits the shape, Data is a zero value of the
\* shape filled from the body alone
ShapeIs(sv) ==
    (last.tr.err = NilErr /\ last.tr.status = 200 /\ MatchesShape(sv, last.tr.body))
    => /\ last.res.err = NilErr
       /\ last.res.env.Data = ShapeOf(sv, last.tr.body.v.o)

\* on a 200 response the body is not decoded and Data is nil
NoShape ==
    (last.tr.err = NilErr /\ last.tr.status = 200)
    => /\ last.res.err = NilErr
       /\ last.res.decodes = 0
       /\ last.res.env.Data = NilData

\* C17: each auth operation sends its fixed method, endpoint and payload and
\* decodes into its own success shape: SignUp (POST, signup, credentials,
\* SignUp), SignIn (POST, token?grant_type=password, credentials,
\* Authenticated), SignOut (POST, logout, null, none), RefreshToken (POST,
\* token?grant_type=refresh_token, {refresh_token}, Authenticated),
\* ForgottenPassword (POST, recover, {email}, none), ResetPassword (PUT,
\* user?type=recovery, {password}, none).
C17_OperationTuples ==
    /\ OpSent({"SignUp"})
          => SentIs("POST", "signup", CredsBody(last.data)) /\ ShapeIs(PtrSignUp)
    /\ OpSent({"SignIn"})
          => /\ SentIs("POST", "token?grant_type=password", CredsBody(last.data))
             /\ ShapeIs(PtrAuthenticated)
    /\ OpSent({"SignOut"})
          => SentIs("POST", "logout", JNull) /\ NoShape
    /\ OpSent({"RefreshToken"})
          => /\ SentIs("POST", "token?grant_type=refresh_token",
                       JObj(Obj1("refresh_token", JStr(last.data.val))))
             /\ ShapeIs(PtrAuthenticated)
    /\ OpSent({"ForgottenPassword"})
          => /\ SentIs("POST", "recover", JObj(Obj1("email", JStr(last.data.val))))
             /\ NoShape
    /\ OpSent({"ResetPassword"})
          => /\ SentIs("PUT", "user?type=recovery",
                       JObj(Obj1("password", JStr(last.data.val))))
             /\ NoShape

C17_Witness ==
    /\ OpSent({"RefreshToken"})
    /\ last.data.val = "tok2"
    /\ last.res.sent[1].Method = "POST"
    /\ last.res.sent[1].URL = GoodBase \o "/token?grant_type=refresh_token"
    /\ last.tr.status = 200
    /\ last.res.err = NilErr
    /\ last.res.env.Data.kind = "Authenticated"
    /\ last.res.env.Data.RefreshToken = "rt"

\* the call returned what the pipeline returns for this tuple: the build
\* error and nothing sent when createRequest fails, otherwise the envelope
\* and the error of sendRequest on the built request (with the bearer token
\* when there is one)
ReturnsPipeline(method, endpoint, data, sv, bearer) ==
    LET b == createRequest(c, method, endpoint, data) IN
    IF b.err # NilErr
    THEN /\ last.res.err = b.err
         /\ last.res.env = NilEnv
         /\ last.res.sent = <<>>
    ELSE LET req == IF bearer
                    THEN [b.req EXCEPT !.Header["Authorization"] =
                                          <<"Bearer " \o last.token>>]
                    ELSE b.req
             s == sendRequest(c, req, sv, last.tr)
         IN /\ last.res.err = s.err
            /\ last.res.env = s.env
            /\ last.res.err # NilErr => last.res.env = NilEnv
            /\ last.res.err = NilErr => ~last.res.env.isNil

\* C18: every auth operation returns the pipeline's outcome unchanged:
\* SignUp, SignIn, RefreshToken and ForgottenPassword the envelope and error
\* of createRequest followed by sendRequest; SignOut and ResetPassword the
\* build error and a nil envelope with nothing sent when createRequest
\* fails, the send error and a nil envelope when sendRequest fails, and
\* otherwise sendRequest's envelope with a nil error.
C18_OperationsReturnPipeline ==
    Returned
    => /\ last.op = "SignUp"
             => ReturnsPipeline("POST", "signup", last.data, PtrSignUp, FALSE)
       /\ last.op = "SignIn"
             => ReturnsPipeline("POST", "token?grant_type=password", last.data,
                                PtrAuthenticated, FALSE)
       /\ last.op = "RefreshToken"
             => ReturnsPipeline("POST", "token?grant_type=refresh_token",
                                last.data, PtrAuthenticated, FALSE)
       /\ last.op = "ForgottenPassword"
             => ReturnsPipeline("POST", "recover", last.data, NilSV, FALSE)
       /\ last.op = "SignOut"
             => ReturnsPipeline("POST", "logout", NilPayload, NilSV, TRUE)
       /\ last.op = "ResetPassword"
             => ReturnsPipeline("PUT", "user?type=recovery", last.data, NilSV, TRUE)

C18_Witness ==
    /\ Returned
    /\ last.op = "SignOut"
    /\ c.BaseUrl = GoodBase
    /\ last.tr.err = NilErr
    /\ last.tr.status = 400
    /\ last.tr.body \in SyntaxBodies
    /\ last.res.err = last.tr.body.diag
    /\ last.res.env = NilEnv
    /\ Len(last.res.sent) = 1

\* createRequest returned a request
RequestBuilt ==
    /\ Returned
    /\ last.op = "createRequest"
    /\ last.res.err = NilErr

\* C19 as stated: every request createRequest returns carries Content-Type
\* and Accept application/json and the method it was given, for every
\* payload, and no apikey header.
C19_AsStated ==
    RequestBuilt
    => /\ ~last.res.req.isNil
       /\ last.res.req.Header["Content-Type"] = <<"application/json">>
       /\ last.res.req.Header["Accept"] = <<"application/json">>
       /\ last.res.req.Header["Apikey"] = <<>>
       /\ last.res.req.Method = last.method

\* C19 (amended): every request createRequest returns carries Content-Type
\* and Accept application/json, no apikey header and, for every payload, the
\* method it was given, or GET when the method given is the empty string.
C19_BuiltRequestHeaders ==
    RequestBuilt
    => /\ ~last.res.req.isNil
       /\ last.res.req.Header["Content-Type"] = <<"application/json">>
       /\ last.res.req.Header["Accept"] = <<"application/json">>
       /\ last.res.req.Header["Apikey"] = <<>>
       /\ last.res.req.Method = IF last.method = "" THEN "GET" ELSE last.method

C19_Witness ==
    /\ RequestBuilt
    /\ last.method = ""
    /\ last.data = NilPayload
    /\ last.res.req.Method = "GET"
    /\ last.res.req.Body = JNull
    /\ HeaderGet(last.res.req.Header, "Accept") = "application/json"
    /\ HeaderGet(last.res.req.Header, "apikey") = ""

\* the base URL alone for an empty endpoint, else base URL, "/", endpoint
UrlFor(endpoint) ==
    IF endpoint = "" THEN c.BaseUrl ELSE c.BaseUrl \o "/" \o endpoint

\* C20: for a non-empty base URL the request createRequest builds (and the
\* one createAndSendRequest sends) has as URL the base URL alone when the
\* endpoint is empty, and otherwise the base URL, one "/" and the endpoint,
\* for every method and payload.
C20_ComposedUrl ==
    /\ (RequestBuilt /\ c.BaseUrl # "")
          => last.res.req.URL = UrlFor(last.endpoint)
    /\ (Returned /\ last.op = "createAndSendRequest" /\ last.res.sent # <<>>)
          => last.res.sent[1].URL = UrlFor(last.endpoint)

C20_Witness ==
    /\ RequestBuilt
    /\ c.BaseUrl = GoodBase
    /\ last.endpoint = ""
    /\ last.data # NilPayload
    /\ last.res.req.URL = "https://test.supabase.co/auth/v1"

\* C15: the endpoint configuration is immutable after construction: no step
\* of any call, succeeding or failing, changes the client's BaseUrl, ApiKey
\* or HttpClient.
C15_ConfigImmutable == [][c' = c]_vars

\* a call has failed and returned on a client made with the usual
\* configuration, which it left as it was
C15_Witness ==
    /\ Returned
    /\ last.op \in {"createRequest", "SignOut"}
    /\ last.res.err # NilErr
    /\ c = [BaseUrl |-> GoodBase, ApiKey |-> "abc123",
            HttpClient |-> "http.Client"]

\* what the call of caller p returns when it runs alone on the client
Alone(cl, a, tr) ==
    IF a.op = "SignUp" THEN SignUp(cl, a.data, tr) ELSE SignOut(cl, a.token, tr)

\* C14: calls interleaved arbitrarily on one client each send the request and
\* return the envelope and error that the same call, with the same arguments
\* and the same transport outcome, yields when run alone.
C14_InterleavingIndependent ==
    \A p \in Callers :
        /\ calls[p].pc = "response"
              => <<calls[p].req>> = Alone(c, calls[p].args, calls[p].tr).sent
        /\ calls[p].pc = "done"
              => calls[p].res = Alone(c, calls[p].args, calls[p].tr)

\* two calls that overlapped have both finished, one with an envelope and one
\* with an error, having sent different requests
C14_Witness ==
    /\ calls[1].pc = "done" /\ calls[2].pc = "done"
    /\ calls[2].overlap
    /\ calls[1].args.op = "SignUp" /\ calls[2].args.op = "SignOut"
    /\ calls[1].res.err = NilErr /\ ~calls[1].res.env.isNil
    /\ calls[2].res.err # NilErr
    /\ calls[1].res.sent # <<>> /\ calls[2].res.sent # <<>>
    /\ calls[1].res.sent # calls[2].res.sent

\* the payload cannot be represented in JSON
Unserializable(data) == Marshal(data).err # NilErr

\* createRequest or createAndSendRequest was called with such a payload
BuiltUnserializable ==
    /\ Returned
    /\ last.op \in {"createRequest", "createAndSendRequest"}
    /\ Unserializable(last.data)

\* the call failed with json.Marshal's error, returned nothing and did not
\* reach the transport
FailedWithMarshalError ==
    /\ last.res.err = Marshal(last.data).err
    /\ last.res.req.isNil
    /\ last.res.env.isNil
    /\ last.res.sent = <<>>

\* C21 as stated: whenever the payload cannot be represented in JSON,
\* createRequest fails with the serialization error unchanged and returns no
\* request, and createAndSendRequest returns that error without invoking
\* the transport.
C21_AsStated == BuiltUnserializable => FailedWithMarshalError

\* C21: when the base URL is not empty and the payload cannot be represented
\* in JSON, createRequest fails with the serialization error unchanged and
\* returns no request, and createAndSendRequest returns that error without
\* invoking the transport.
C21_SerializationErrorVerbatim ==
    (BuiltUnserializable /\ c.BaseUrl # "") => FailedWithMarshalError

\* createAndSendRequest was handed a channel on a client with a base URL
C21_Witness ==
    /\ Returned
    /\ last.op = "createAndSendRequest"
    /\ c.BaseUrl = GoodBase
    /\ last.data = ChanPayload
    /\ last.res.err = "json: unsupported type: chan int"
    /\ last.res.sent = <<>>

\* C22: every call of createRequest, sendRequest and createAndSendRequest
\* returns exactly one of a result and an error: a request (createRequest)
\* or an envelope (the other two) with a nil error, or nil with an error.
C22_ResultXorError ==
    /\ (Returned /\ last.op = "createRequest")
          => (last.res.req.isNil <=> last.res.err # NilErr)
    /\ (Returned /\ last.op \in {"sendRequest", "createAndSendRequest"})
          => (last.res.env.isNil <=> last.res.err # NilErr)

\* sendRequest got a non-2xx response whose body does not decode, and
\* returned the error and no envelope
C22_Witness ==
    /\ SendGotResponse
    /\ ~InSuccessRange(last.tr.status)
    /\ last.res.decodes = 1
    /\ last.res.err # NilErr
    /\ last.res.env.isNil

\* the error NewRequestWithContext gives for a URL that does not parse
IsUrlError(err, url) ==
    /\ ~UrlParses(url)
    /\ err = NewRequestWithContext("GET", url, JNull).err

\* C23: createRequest reports the first failing check in a fixed order: the
\* empty base URL even when the payload is unserializable, the unserializable
\* payload even when the composed URL is invalid, and an invalid composed URL
\* only when the base URL is not empty and the payload serializes.
C23_FirstFailingCheck ==
    (Returned /\ last.op = "createRequest")
    => /\ c.BaseUrl = "" => last.res.err = ErrEmptyUrl
       /\ (c.BaseUrl # "" /\ Unserializable(last.data))
             => last.res.err = Marshal(last.data).err
       /\ IsUrlError(last.res.err, ComposeUrl(c.BaseUrl, last.endpoint))
             => (c.BaseUrl # "" /\ ~Unserializable(last.data))

\* createRequest was handed a channel on a client whose base URL does not
\* parse, and reported the channel
C23_Witness ==
    /\ Returned
    /\ last.op = "createRequest"
    /\ c.BaseUrl = BadBase
    /\ last.data = ChanPayload
    /\ last.res.err = Marshal(ChanPayload).err
    /\ last.res.req.isNil

====
